---- MODULE Spec2Model ----
(***************************************************************************)
(* A model of describe.py: the program that renders a Python program's     *)
(* syntax tree and bytecode into prose.  Text is modelled by TLC strings   *)
(* (\o is str concatenation, Len is len, SubSeq is slicing).  A call that   *)
(* may raise returns a record with a raised field.                         *)
(***************************************************************************)
EXTENDS Integers, Sequences, FiniteSets, TLC

VARIABLES
    pc,        \* position in describe_file: "start", "while", "for", "done", "raised"
    tree,      \* ast.parse(codetxt), the input syntax tree
    top,       \* compile(codetxt, ...), the input top-level code object
    txt,       \* describe_file's txt, as the sequence of pieces added by each +=
    codes,     \* the discovery queue: sequence of <<name, code>> pairs
    name,      \* describe_file's local name
    code,      \* describe_file's local code
    ip,        \* index of the next instruction of dis.get_instructions(code)
    rendered,  \* history: the <<name, code>> pairs popped so far, in order
    arg,       \* argument of the function under test (function harnesses)
    ret        \* its result

vars == <<pc, tree, top, txt, codes, name, code, ip, rendered, arg, ret>>

\* ------------------------------------------------------------------ bounds

MaxNum == 40        \* describe_number is tried on -MaxNum..MaxNum
MaxStrLen == 3      \* escape_string is tried on strings of at most this length
MaxItems == 3       \* as_list is tried on lists of at most this length
MaxTupleLen == 2    \* describe_value is tried on tuples of at most this length
MaxInstrs == 2      \* instructions of the top-level code object
MaxStmts == 2       \* statements of the module body

\* ------------------------------------------------------- Python primitives

\* The result of a call that returned text t / that raised.
Ok(t) == [raised |-> FALSE, text |-> t]
Raise == [raised |-> TRUE, text |-> ""]

\* list[i] with Python's negative indexing; IndexError outside -len..len-1.
PyGetItem(list, i) ==
    IF 0 <= i /\ i < Len(list) THEN Ok(list[i + 1])
    ELSE IF i < 0 /\ -Len(list) <= i THEN Ok(list[Len(list) + i + 1])
    ELSE Raise

\* sep.join(items) for a list of str.
RECURSIVE PyJoin(_, _)
PyJoin(sep, items) ==
    IF Len(items) = 0 THEN ""
    ELSE IF Len(items) = 1 THEN items[1]
    ELSE items[1] \o sep \o PyJoin(sep, Tail(items))

\* The backtick character (a string literal cannot hold a lone backtick).
BT == SubSeq("`'", 1, 1)

\* The str made of a sequence of strs.
RECURSIVE JoinChars(_)
JoinChars(cs) == IF cs = <<>> THEN "" ELSE Head(cs) \o JoinChars(Tail(cs))

\* re.sub of a one-character pattern: every character in pat is replaced
\* by repl[c], the others are copied, in one left-to-right pass.
RECURSIVE ReSub(_, _, _)
ReSub(pat, repl, s) ==
    IF Len(s) = 0 THEN ""
    ELSE LET c == SubSeq(s, 1, 1)
         IN  (IF c \in pat THEN repl[c] ELSE c)
                 \o ReSub(pat, repl, SubSeq(s, 2, Len(s)))

\* ------------------------------------------------------------ describe_number

words == <<"zero", "one", "two", "three", "four", "five", "six", "seven",
           "eight", "nine", "ten">>

describe_number(num) ==
    IF 0 <= num /\ num <= 10 THEN PyGetItem(words, num)
    ELSE IF num >= -10 THEN
        LET w == PyGetItem(words, -num)
        IN  IF w.raised THEN Raise ELSE Ok("minus " \o w.text)
    ELSE Ok(ToString(num))

\* -------------------------------------------------------------------- as_list

as_list_NoOxfordComma(items) ==
    IF Len(items) = 1 THEN Ok(items[1])
    ELSE IF Len(items) = 0 THEN Raise
    ELSE Ok(PyJoin(", ", SubSeq(items, 1, Len(items) - 1)) \o " and "
                \o items[Len(items)])

as_list(items) ==
    IF Len(items) = 1 THEN Ok(items[1])
    ELSE LET last == PyGetItem(items, -1)
         IN  IF last.raised THEN Raise
             ELSE Ok(PyJoin(", ", SubSeq(items, 1, Len(items) - 1)) \o ", and "
                         \o last.text)

\* -------------------------------------------------------------- escape_string

MarkupChars == {"_", BT, "*", "\\", "#"}

\* The template r'\\\1': a backslash, then the matched character.
EscapeRepl == [c \in MarkupChars |-> "\\" \o c]

\* The template r'\\\\n': two backslashes, then the letter n.
NewlineRepl == [c \in {"\n"} |-> "\\\\n"]

escape_string_NewlineFirst(s) ==
    ReSub(MarkupChars, EscapeRepl, ReSub({"\n"}, NewlineRepl, s))

escape_string(s) ==
    ReSub({"\n"}, NewlineRepl, ReSub(MarkupChars, EscapeRepl, s))

\* ------------------------------------------------------------ constant values
\* A Python constant is a record [cat, v]: its category and its payload.

CodeV(co_name, co_firstlineno, instrs) ==
    [cat |-> "code",
     v |-> [co_name |-> co_name, co_firstlineno |-> co_firstlineno,
            instrs |-> instrs]]
StrV(s) == [cat |-> "str", v |-> s]
IntV(n) == [cat |-> "int", v |-> n]
NoneV == [cat |-> "None", v |-> "None"]
TupleV(elts) == [cat |-> "tuple", v |-> elts]
\* Any other category (float, bytes, Ellipsis, ...), carried by its repr().
OtherV(repr) == [cat |-> "other", v |-> repr]

\* One instruction as compile() lays it down; dis adds the offset.
Instr(opname, argval, is_jump_target, starts_line) ==
    [opname |-> opname, argval |-> argval, is_jump_target |-> is_jump_target,
     starts_line |-> starts_line]

\* str(x) of an operand, as "{}".format(x) renders it.
PyStr(value) ==
    IF value.cat = "int" THEN ToString(value.v) ELSE value.v

\* ------------------------------------------------------------- describe_value

\* The result of a rule or of describe_value: the text, and the queue as the
\* call left it (an append made before an exception stays made).
Txt(t, cds) == [raised |-> FALSE, text |-> t, codes |-> cds]
Exc(cds) == [raised |-> TRUE, text |-> "", codes |-> cds]

\* Lines 104-106: the name a code object is filed under.
BlockLabel(value) ==
    LET co_name == value.v.co_name
    IN  IF Len(co_name) > 0 /\ SubSeq(co_name, 1, 1) = "<"
        THEN SubSeq(co_name, 2, Len(co_name) - 1) \o ":"
                 \o ToString(value.v.co_firstlineno)
        ELSE co_name

RECURSIVE describe_value(_, _)
RECURSIVE DescribeEach(_, _, _)

\* list(describe_value(x, codes) for x in value): the elements in order,
\* stopping at the first one that raises.
DescribeEach(elts, cds, acc) ==
    IF elts = <<>> THEN [raised |-> FALSE, texts |-> acc, codes |-> cds]
    ELSE LET r == describe_value(Head(elts), cds)
         IN  IF r.raised THEN [raised |-> TRUE, texts |-> acc, codes |-> r.codes]
             ELSE DescribeEach(Tail(elts), r.codes, Append(acc, r.text))

describe_value_SkipQueued(value, cds) ==
    CASE value.cat = "code" ->
            LET nm == BlockLabel(value)
            IN  Txt("the code object described under " \o nm,
                    IF \E i \in 1..Len(cds) : cds[i][2] = value THEN cds
                    ELSE Append(cds, <<nm, value>>))
      [] value.cat = "str" ->
            Txt("the literal string *'" \o escape_string(value.v) \o "'*", cds)
      [] value.cat = "int" ->
            LET d == describe_number(value.v)
            IN  IF d.raised THEN Exc(cds)
                ELSE Txt("the integer constant " \o d.text, cds)
      [] value.cat = "None" -> Txt("the constant None", cds)
      [] value.cat = "tuple" ->
            LET each == DescribeEach(value.v, cds, <<>>)
                l == as_list(each.texts)
            IN  IF each.raised \/ l.raised THEN Exc(each.codes)
                ELSE Txt("the tuple consisting of " \o l.text, each.codes)
      [] OTHER -> Txt(value.v, cds)

describe_value(value, cds) ==
    CASE value.cat = "code" ->
            LET nm == BlockLabel(value)
            IN  Txt("the code object described under " \o nm,
                    Append(cds, <<nm, value>>))
      [] value.cat = "str" ->
            Txt("the literal string *'" \o escape_string(value.v) \o "'*", cds)
      [] value.cat = "int" ->
            LET d == describe_number(value.v)
            IN  IF d.raised THEN Exc(cds)
                ELSE Txt("the integer constant " \o d.text, cds)
      [] value.cat = "None" -> Txt("the constant None", cds)
      [] value.cat = "tuple" ->
            LET each == DescribeEach(value.v, cds, <<>>)
                l == as_list(each.texts)
            IN  IF each.raised \/ l.raised THEN Exc(each.codes)
                ELSE Txt("the tuple consisting of " \o l.text, each.codes)
      [] OTHER -> Txt(value.v, cds)

\* ----------------------------------------------------------------- opcode rules
\* Each rule takes the instruction and the queue, as in the source.

LOAD_CONST(op, cds) ==
    LET d == describe_value(op.argval, cds)
    IN  IF d.raised THEN d
        ELSE Txt("The computer places " \o d.text \o " on top of the stack.",
                 d.codes)

LOAD_NAME(op, cds) ==
    Txt("The computer places the value associated with the name " \o BT
            \o PyStr(op.argval) \o BT \o " on top of the stack.", cds)

CALL_FUNCTION(op, cds) ==
    IF op.argval.v = 0 THEN
        Txt("The computer takes the top value from the stack "
                \o "and calls it as a function (with no arguments), "
                \o "placing the return value on top of the stack.", cds)
    ELSE IF op.argval.v = 1 THEN
        Txt("The computer takes the top value from the stack, "
                \o "along with another value which it calls as a function, "
                \o "using the original value as an argument, "
                \o "placing the return value on the stack.", cds)
    ELSE LET d == describe_number(op.argval.v)
         IN  IF d.raised THEN Exc(cds)
             ELSE Txt("The computer takes " \o d.text \o " values from the stack, "
                          \o "along with another value which it calls as a function, "
                          \o "using the original values as arguments, "
                          \o "placing the return value on the stack.", cds)

POP_TOP(op, cds) ==
    Txt("The computer discards the top value from the stack.", cds)

RETURN_VALUE(op, cds) ==
    Txt("The computer exits the current function, "
            \o "returning the top value on the stack.", cds)

STORE_NAME(op, cds) ==
    Txt("The computer takes the top value from the stack, "
            \o "and stores it under the name " \o BT \o PyStr(op.argval) \o BT
            \o ".", cds)

POP_JUMP_IF_FALSE(op, cds) ==
    Txt("The computer takes the top value from the stack, "
            \o "and if it is false-like (e.g. False, None or zero), "
            \o "jumps to offset " \o PyStr(op.argval) \o ".", cds)

POP_JUMP_IF_TRUE(op, cds) ==
    Txt("The computer takes the top value from the stack, "
            \o "and if it is true-like (e.g. True, non-empty or non-zero), "
            \o "jumps to offset " \o PyStr(op.argval) \o ".", cds)

\* op.argval & bit, for bit a power of two.
BitSet(n, bit) == (n \div bit) % 2 = 1

MAKE_FUNCTION(op, cds) ==
    Txt("The computer takes the top two values from the stack "
            \o "and uses them as the qualified name and code of a new function, "
            \o "which is placed on the stack."
            \o (IF BitSet(op.argval.v, 8)
                THEN " It also takes the next value as a tuple of cells "
                         \o "for free variables, creating a closure."
                ELSE "")
            \o (IF BitSet(op.argval.v, 4)
                THEN " It also takes the next value as a dictionary "
                         \o "of function annotations."
                ELSE "")
            \o (IF BitSet(op.argval.v, 2)
                THEN " It also takes the next value as a dictionary "
                         \o "of keyword arguments."
                ELSE "")
            \o (IF BitSet(op.argval.v, 1)
                THEN " It also takes the next value as a tuple of default arguments."
                ELSE ""), cds)

EXTENDED_ARG(op, cds) == Txt("", cds)

BUILD_LIST(op, cds) ==
    IF op.argval.v = 0 THEN
        Txt("The computer places a new empty list on top of the stack.", cds)
    ELSE IF op.argval.v = 1 THEN
        Txt("The computer takes the top value from the stack, "
                \o "puts it in a list, and places it on top of the stack.", cds)
    ELSE LET d == describe_number(op.argval.v)
         IN  IF d.raised THEN Exc(cds)
             ELSE Txt("The computer takes the top " \o d.text
                          \o " values from the stack, "
                          \o "puts them in a list, and places it on top of the stack.",
                      cds)

FOR_ITER(op, cds) ==
    Txt("The computer looks at the top value on the stack and "
            \o "calls its " \o BT \o "next()" \o BT \o " method. If it returns a value, "
            \o "it places it on top of the stack. If not, it removes "
            \o "the top value from the stack and jumps to offset "
            \o PyStr(op.argval) \o ".", cds)

JUMP_ABSOLUTE(op, cds) ==
    Txt("The computer jumps to offset " \o PyStr(op.argval) \o ".", cds)

JUMP_FORWARD(op, cds) ==
    Txt("The computer jumps forward to offset " \o PyStr(op.argval) \o ".", cds)

SETUP_LOOP(op, cds) ==
    Txt("The computer places a new block for a loop on top of "
            \o "the block stack, extending until offset " \o PyStr(op.argval)
            \o ".", cds)

\* The template is returned as written: the source never calls .format on it.
JUMP_IF_FALSE_OR_POP(op, cds) ==
    Txt("The computer looks at the top value on the stack. "
            \o "If it is false-like (e.g. False, None or zero), it jumps "
            \o "to offset {}. Otherwise it removes the top value from the stack.",
        cds)

\* The opcode names the descriptors registry holds (line 132, filled by the
\* @descriptor decorations of lines 433-778).
OpcodeKeys ==
    {"LOAD_CONST", "LOAD_NAME", "CALL_FUNCTION", "POP_TOP", "RETURN_VALUE",
     "STORE_NAME", "BINARY_SUBSCR", "LOAD_ATTR", "POP_JUMP_IF_FALSE",
     "POP_JUMP_IF_TRUE", "IMPORT_NAME", "MAKE_FUNCTION", "COMPARE_OP",
     "BUILD_MAP", "EXTENDED_ARG", "BINARY_ADD", "BINARY_MULTIPLY",
     "BINARY_AND", "BUILD_LIST", "BUILD_SLICE", "BUILD_TUPLE", "FOR_ITER",
     "GET_ITER", "INPLACE_ADD", "JUMP_ABSOLUTE", "JUMP_FORWARD", "LIST_APPEND",
     "LOAD_CLOSURE", "LOAD_DEREF", "LOAD_FAST", "LOAD_GLOBAL", "POP_BLOCK",
     "SETUP_LOOP", "STORE_DEREF", "STORE_FAST", "STORE_SUBSCR",
     "UNPACK_SEQUENCE", "YIELD_VALUE", "CALL_FUNCTION_KW", "DUP_TOP",
     "ROT_TWO", "ROT_THREE", "UNARY_NEGATIVE", "JUMP_IF_FALSE_OR_POP"}

\* f(op, codes) for f = descriptors[op.opname]; the rules modelled are those
\* of the opcodes the instruction pools below draw from.
ApplyOpRule(op, cds) ==
    CASE op.opname = "LOAD_CONST" -> LOAD_CONST(op, cds)
      [] op.opname = "LOAD_NAME" -> LOAD_NAME(op, cds)
      [] op.opname = "CALL_FUNCTION" -> CALL_FUNCTION(op, cds)
      [] op.opname = "POP_TOP" -> POP_TOP(op, cds)
      [] op.opname = "RETURN_VALUE" -> RETURN_VALUE(op, cds)
      [] op.opname = "STORE_NAME" -> STORE_NAME(op, cds)
      [] op.opname = "POP_JUMP_IF_FALSE" -> POP_JUMP_IF_FALSE(op, cds)
      [] op.opname = "POP_JUMP_IF_TRUE" -> POP_JUMP_IF_TRUE(op, cds)
      [] op.opname = "MAKE_FUNCTION" -> MAKE_FUNCTION(op, cds)
      [] op.opname = "EXTENDED_ARG" -> EXTENDED_ARG(op, cds)
      [] op.opname = "BUILD_LIST" -> BUILD_LIST(op, cds)
      [] op.opname = "FOR_ITER" -> FOR_ITER(op, cds)
      [] op.opname = "JUMP_ABSOLUTE" -> JUMP_ABSOLUTE(op, cds)
      [] op.opname = "JUMP_FORWARD" -> JUMP_FORWARD(op, cds)
      [] op.opname = "SETUP_LOOP" -> SETUP_LOOP(op, cds)
      [] op.opname = "JUMP_IF_FALSE_OR_POP" -> JUMP_IF_FALSE_OR_POP(op, cds)

\* ------------------------------------------------------------------ describe_op

\* "\n\n### Offset {}\n\n".format(op.offset)
OffsetHeading(op) == "\n\n### Offset " \o ToString(op.offset) \o "\n\n"

describe_op_HeadingOnlyWithText(op, cds) ==
    LET r == IF op.opname \in OpcodeKeys THEN ApplyOpRule(op, cds)
             ELSE Txt("", cds)
    IN  IF r.raised THEN r
        ELSE IF op.is_jump_target /\ r.text # ""
             THEN Txt(OffsetHeading(op) \o r.text, r.codes)
             ELSE r

describe_op(op, cds) ==
    LET r == IF op.opname \in OpcodeKeys THEN ApplyOpRule(op, cds)
             ELSE Txt("", cds)
    IN  IF r.raised THEN r
        ELSE IF op.is_jump_target
             THEN Txt(OffsetHeading(op) \o r.text, r.codes)
             ELSE r

\* dis.get_instructions(code): the instructions in order, two bytes each.
get_instructions(co) ==
    [i \in 1..Len(co.v.instrs) |->
        [opname |-> co.v.instrs[i].opname,
         argval |-> co.v.instrs[i].argval,
         is_jump_target |-> co.v.instrs[i].is_jump_target,
         starts_line |-> co.v.instrs[i].starts_line,
         offset |-> 2 * (i - 1)]]

\* ------------------------------------------------------------------ tree rules
\* A syntax node is a record with its class name in kind and the fields of
\* that class.

ModuleN(body) == [kind |-> "Module", body |-> body]
AssignN(target, value) == [kind |-> "Assign", targets |-> <<target>>, value |-> value]
ExprN(value) == [kind |-> "Expr", value |-> value]
NameN(id) == [kind |-> "Name", id |-> id]
NumN(n) == [kind |-> "Num", n |-> n]
StrN(s) == [kind |-> "Str", s |-> s]
BinOpN(left, op, right) == [kind |-> "BinOp", left |-> left, op |-> op, right |-> right]
AddN == [kind |-> "Add"]
\* A node of a class that has no rule (Pass, ClassDef, Lambda, ...).
OtherN(kind) == [kind |-> kind]

\* The node class names the descriptors registry holds (lines 140-430).
NodeKeys ==
    {"Module", "Import", "Assign", "AugAssign", "Add", "Mult", "BitAnd",
     "Subscript", "Index", "Slice", "For", "While", "Continue", "Name",
     "NameConstant", "List", "Tuple", "Dict", "FunctionDef", "Call", "Return",
     "Str", "Attribute", "Expr", "BinOp", "If", "Num", "Compare", "Eq", "GtE",
     "LtE", "Gt", "Is", "UnaryOp", "Not", "USub", "GeneratorExp", "ListComp",
     "Assert"}

\* The registry's keys: one dict holds the node rules and the opcode rules.
descriptors == NodeKeys \cup OpcodeKeys

RECURSIVE describe_node(_)

Module_Reversed(node) ==
    "A module, containing the following code:\n\n"
        \o PyJoin("\n\n", [i \in 1..Len(node.body) |->
                                describe_node(node.body[Len(node.body) + 1 - i])])

Module(node) ==
    "A module, containing the following code:\n\n"
        \o PyJoin("\n\n", [i \in 1..Len(node.body) |-> describe_node(node.body[i])])

Assign(node) ==
    "An assignment to " \o describe_node(node.targets[1])
        \o ", of the value of " \o describe_node(node.value) \o "."

Add(node) == "the addition (or concatenation) operator"

Name(node) == "the name " \o BT \o node.id \o BT

Str(node) == "the literal string *'" \o escape_string(node.s) \o "'*"

Expr(node) == "A bare expression with value " \o describe_node(node.value) \o "."

BinOp(node) ==
    describe_node(node.op) \o ", with left hand side " \o describe_node(node.left)
        \o ", and right hand side " \o describe_node(node.right)

Num_Spelled(node) == "a numeric constant with value " \o describe_number(node.n).text

Num(node) == "a numeric constant with value " \o ToString(node.n)

\* f(node) for f = descriptors[node.__class__.__name__]; the rules modelled
\* are those of the node classes the statement pool below draws from.
ApplyNodeRule(node) ==
    CASE node.kind = "Module" -> Module(node)
      [] node.kind = "Assign" -> Assign(node)
      [] node.kind = "Add" -> Add(node)
      [] node.kind = "Name" -> Name(node)
      [] node.kind = "Str" -> Str(node)
      [] node.kind = "Expr" -> Expr(node)
      [] node.kind = "BinOp" -> BinOp(node)
      [] node.kind = "Num" -> Num(node)

\* str(node) of a node without __str__: object.__repr__, whose address part
\* differs from run to run and is left out.
NodeStr(node) == "<_ast." \o node.kind \o " object>"

describe_node_EmptyFallback(node) ==
    IF node.kind \in descriptors THEN ApplyNodeRule(node) ELSE ""

describe_node(node) ==
    IF node.kind \in descriptors THEN ApplyNodeRule(node) ELSE NodeStr(node)

\* ------------------------------------------------------------------ the inputs

\* Nested code objects, as compile() nests them in co_consts.
\* def h(): a loop over an iterator.
CodeH ==
    CodeV("h", 5, <<Instr("SETUP_LOOP", IntV(6), FALSE, TRUE),
                    Instr("FOR_ITER", IntV(6), TRUE, FALSE),
                    Instr("JUMP_ABSOLUTE", IntV(2), FALSE, FALSE),
                    Instr("LOAD_CONST", NoneV, TRUE, TRUE),
                    Instr("RETURN_VALUE", NoneV, FALSE, FALSE)>>)
\* Two lambdas written on one source line.
LambdaA ==
    CodeV("<lambda>", 3, <<Instr("LOAD_CONST", IntV(1), FALSE, TRUE),
                           Instr("BUILD_LIST", IntV(2), FALSE, FALSE),
                           Instr("RETURN_VALUE", NoneV, FALSE, FALSE)>>)
LambdaB ==
    CodeV("<lambda>", 3, <<Instr("LOAD_CONST", IntV(2), FALSE, TRUE),
                           Instr("CALL_FUNCTION", IntV(2), FALSE, FALSE),
                           Instr("RETURN_VALUE", NoneV, FALSE, FALSE)>>)
\* def f(): a conditional return.
CodeF ==
    CodeV("f", 2, <<Instr("LOAD_NAME", StrV("x"), FALSE, TRUE),
                    Instr("POP_JUMP_IF_FALSE", IntV(6), FALSE, FALSE),
                    Instr("JUMP_IF_FALSE_OR_POP", IntV(6), FALSE, FALSE),
                    Instr("RETURN_VALUE", NoneV, TRUE, TRUE)>>)
\* def g(): defines h and a lambda in its body.
CodeG ==
    CodeV("g", 4, <<Instr("LOAD_CONST", CodeH, FALSE, TRUE),
                    Instr("MAKE_FUNCTION", IntV(8), FALSE, FALSE),
                    Instr("STORE_NAME", StrV("h"), FALSE, FALSE),
                    Instr("LOAD_CONST", LambdaA, FALSE, TRUE),
                    Instr("POP_JUMP_IF_TRUE", IntV(0), FALSE, FALSE)>>)

\* The instructions the top-level code object is made of.
InstrPool ==
    <<Instr("LOAD_CONST", CodeF, FALSE, TRUE),
      Instr("LOAD_CONST", CodeG, FALSE, TRUE),
      Instr("LOAD_CONST", LambdaB, FALSE, FALSE),
      Instr("LOAD_CONST", IntV(12), TRUE, FALSE),
      Instr("LOAD_CONST", TupleV(<<>>), FALSE, TRUE),
      Instr("LOAD_CONST", TupleV(<<StrV("a_b"), IntV(-3)>>), TRUE, TRUE),
      Instr("POP_TOP", NoneV, FALSE, FALSE),
      Instr("EXTENDED_ARG", IntV(1), TRUE, TRUE),
      Instr("EXTENDED_ARG", IntV(1), FALSE, TRUE),
      Instr("NOP", NoneV, TRUE, FALSE),
      Instr("NOP", NoneV, FALSE, TRUE),
      Instr("JUMP_FORWARD", IntV(2), FALSE, FALSE)>>

\* Every module ends by returning None.
ModuleEpilogue ==
    <<Instr("LOAD_CONST", NoneV, FALSE, FALSE),
      Instr("RETURN_VALUE", NoneV, FALSE, FALSE)>>

\* The statements the module body is made of.
StmtPool ==
    <<AssignN(NameN("x"), BinOpN(NumN(1), AddN, NumN(2))),
      OtherN("Pass"),
      ExprN(OtherN("Lambda"))>>

\* The sequences of at most max elements of pool.
SeqsOf(pool, min, max) ==
    UNION {{[i \in 1..k |-> pool[f[i]]] : f \in [1..k -> 1..Len(pool)]} :
           k \in min..max}

\* --------------------------------------------------------------- describe_file

title == "The Program Which Generates This Book"
author == "Martin O'Leary"
\* The preface, the license file and the source text are opaque here.
preface == "(preface)"
license == "(LICENSE.md)"
codetxt == "(source text)"
filename == "describe.py"

title_block == "% " \o title \o "\n% " \o author \o "\n"

NoCode == CodeV("", 0, <<>>)
NoRet == [called |-> FALSE, raised |-> FALSE, text |-> "", codes |-> <<>>]

Init ==
    /\ pc = "start"
    /\ \E body \in SeqsOf(StmtPool, 0, MaxStmts) : tree = ModuleN(body)
    /\ \E ops \in SeqsOf(InstrPool, 1, MaxInstrs) :
           top = CodeV("<module>", 1, ops \o ModuleEpilogue)
    /\ txt = <<>>
    /\ codes = <<>>
    /\ name = ""
    /\ code = NoCode
    /\ ip = 0
    /\ rendered = <<>>
    /\ arg = <<>>
    /\ ret = NoRet

\* Lines 50-61: the front matter, the tree section, the initial queue.
Start ==
    /\ pc = "start"
    /\ txt' = <<title_block,
                "# About this book\n\n",
                preface,
                "\n\n## License\n\n",
                license,
                "\n\n# Source code\n\n",
                BT \o BT \o BT \o "\n" \o codetxt \o "\n" \o BT \o BT \o BT \o "\n\n",
                "# Abstract syntax tree\n\n",
                describe_node(tree),
                "\n\n# Bytecode\n\n">>
    /\ codes' = <<<<filename, top>>>>
    /\ pc' = "while"
    /\ UNCHANGED <<tree, top, name, code, ip, rendered, arg, ret>>

PopBlock_LIFO ==
    /\ pc = "while"
    /\ codes # <<>>
    /\ name' = codes[Len(codes)][1]
    /\ code' = codes[Len(codes)][2]
    /\ codes' = SubSeq(codes, 1, Len(codes) - 1)
    /\ rendered' = Append(rendered, codes[Len(codes)])
    /\ txt' = Append(txt, "## " \o name')
    /\ ip' = 1
    /\ pc' = "for"
    /\ UNCHANGED <<tree, top, arg, ret>>

\* Lines 62-64: the while test passes; pop the head and write its heading.
PopBlock ==
    /\ pc = "while"
    /\ codes # <<>>
    /\ name' = codes[1][1]
    /\ code' = codes[1][2]
    /\ codes' = Tail(codes)
    /\ rendered' = Append(rendered, codes[1])
    /\ txt' = Append(txt, "## " \o name')
    /\ ip' = 1
    /\ pc' = "for"
    /\ UNCHANGED <<tree, top, arg, ret>>

\* Lines 67-70: what the loop body adds to txt for op, given desc.
Emit(t, op, desc) ==
    IF desc = "" THEN t
    ELSE (IF op.starts_line THEN Append(t, "\n\n") ELSE t) \o <<desc \o " ">>

\* Lines 65-70: one iteration of the for loop.
RenderOp ==
    /\ pc = "for"
    /\ ip <= Len(code.v.instrs)
    /\ LET op == get_instructions(code)[ip]
           r == describe_op(op, codes)
       IN  /\ codes' = r.codes
           /\ IF r.raised
              THEN /\ pc' = "raised"
                   /\ UNCHANGED <<txt, ip>>
              ELSE /\ pc' = "for"
                   /\ txt' = Emit(txt, op, r.text)
                   /\ ip' = ip + 1
    /\ UNCHANGED <<tree, top, name, code, rendered, arg, ret>>

\* Line 71: the instructions are exhausted.
EndBlock ==
    /\ pc = "for"
    /\ ip > Len(code.v.instrs)
    /\ txt' = Append(txt, "\n\n")
    /\ pc' = "while"
    /\ UNCHANGED <<tree, top, codes, name, code, ip, rendered, arg, ret>>

\* Lines 62 and 72: the queue is empty; return txt.
Return ==
    /\ pc = "while"
    /\ codes = <<>>
    /\ pc' = "done"
    /\ UNCHANGED <<tree, top, txt, codes, name, code, ip, rendered, arg, ret>>

Next == Start \/ PopBlock \/ RenderOp \/ EndBlock \/ Return

Spec == Init /\ [][Next]_vars

\* ------------------------------------------------- the functions on their own
\* Each function is also called directly, on every input of a bounded set.

Harness ==
    /\ pc = "call"
    /\ tree = ModuleN(<<>>)
    /\ top = NoCode
    /\ txt = <<>>
    /\ codes = <<>>
    /\ name = ""
    /\ code = NoCode
    /\ ip = 0
    /\ rendered = <<>>
    /\ ret = NoRet

Returned(r) ==
    /\ pc = "call"
    /\ ~ret.called
    /\ ret' = [called |-> TRUE, raised |-> r.raised, text |-> r.text,
               codes |-> r.codes]
    /\ UNCHANGED <<pc, tree, top, txt, codes, name, code, ip, rendered, arg>>

\* describe_number(arg)
InitNumber == Harness /\ arg \in (-MaxNum)..MaxNum
CallDescribeNumber ==
    LET r == describe_number(arg)
    IN  Returned([raised |-> r.raised, text |-> r.text, codes |-> <<>>])
SpecNumber == InitNumber /\ [][CallDescribeNumber]_vars

\* escape_string(arg)
Alphabet == <<"_", BT, "*", "#", "\\", "\n", "a", "n">>
InitEscape ==
    Harness /\ \E cs \in SeqsOf(Alphabet, 0, MaxStrLen) : arg = JoinChars(cs)
CallEscapeString ==
    Returned([raised |-> FALSE, text |-> escape_string(arg), codes |-> <<>>])
SpecEscape == InitEscape /\ [][CallEscapeString]_vars

\* as_list(arg)
ItemPool == <<"X", "Y", "Z", "a, and b", "">>
InitList == Harness /\ arg \in SeqsOf(ItemPool, 0, MaxItems)
CallAsList ==
    LET r == as_list(arg)
    IN  Returned([raised |-> r.raised, text |-> r.text, codes |-> <<>>])
SpecList == InitList /\ [][CallAsList]_vars

\* describe_value(arg, codes) on an empty queue
AtomPool ==
    <<CodeF, LambdaA, StrV("a_b"), StrV("l1\nl2"), IntV(0), IntV(7), IntV(-10),
      IntV(-11), IntV(11), IntV(12), NoneV, OtherV("1.5"), OtherV("b'x'"),
      OtherV("Ellipsis")>>
ElemPool ==
    AtomPool \o <<TupleV(<<>>), TupleV(<<IntV(1)>>),
                  TupleV(<<IntV(1), StrV("s")>>), TupleV(<<CodeF, CodeF>>)>>
InitValue ==
    /\ Harness
    /\ \/ \E i \in 1..Len(AtomPool) : arg = AtomPool[i]
       \/ \E elts \in SeqsOf(ElemPool, 0, MaxTupleLen) : arg = TupleV(elts)
CallDescribeValue == Returned(describe_value(arg, <<>>))
SpecValue == InitValue /\ [][CallDescribeValue]_vars

\* describe_node(arg): a numeric literal, the statement a = l + r over two
\* numeric literals, or a module whose body is drawn from the statement pool.
MaxOperand == 10
MaxBody == 3
InitNode ==
    /\ Harness
    /\ \/ \E n \in 0..MaxNum : arg = NumN(n)
       \/ \E l, r \in 0..MaxOperand :
              arg = AssignN(NameN("x"), BinOpN(NumN(l), AddN, NumN(r)))
       \/ \E body \in SeqsOf(StmtPool, 0, MaxBody) : arg = ModuleN(body)
CallDescribeNode ==
    Returned([raised |-> FALSE, text |-> describe_node(arg), codes |-> <<>>])
SpecNode == InitNode /\ [][CallDescribeNode]_vars

\* ------------------------------------------------------------------ the claims

IsPrefix(a, b) == Len(a) <= Len(b) /\ SubSeq(b, 1, Len(a)) = a

\* Every pair that was ever in the queue, in the order it entered it.
Discovered == rendered \o codes

\* The label the text describes for a block: its declared name, or for a
\* name in angle brackets the construct kind, a colon and the line number.
ExpectedLabel(value) ==
    LET n == value.v.co_name
    IN  IF SubSeq(n, 1, 1) = "<"
        THEN SubSeq(n, 2, Len(n) - 1) \o ":" \o ToString(value.v.co_firstlineno)
        ELSE n

\* The section headings of a document t, given the pairs r popped so far.
SectionHeadings(t, r) ==
    SelectSeq(t, LAMBDA p : \E i \in 1..Len(r) : p = "## " \o r[i][1])

\* C1: the sections come out in the order the blocks entered the queue
\* (the queue only grows at its tail and is only consumed at its head), each
\* under the heading "## " followed by the label derived for the block.
C1_FifoSections ==
    [][/\ IsPrefix(Discovered, Discovered')
       /\ SectionHeadings(txt', rendered')
              = [i \in 1..Len(rendered') |-> "## " \o rendered'[i][1]]
       /\ \A i \in 2..Len(Discovered') :
              Discovered'[i][1] = ExpectedLabel(Discovered'[i][2])]_vars

\* g and a lambda are found in the top-level block, h and another lambda
\* inside g: the sections are g, lambda, h, lambda.
C1_Witness ==
    /\ pc = "done"
    /\ [i \in 1..Len(rendered) |-> rendered[i][1]]
           = <<filename, "g", "lambda:3", "h", "lambda:3">>
    /\ rendered[3][2] = LambdaB
    /\ rendered[4][2] = CodeH
    /\ SectionHeadings(txt, rendered)
           = <<"## describe.py", "## g", "## lambda:3", "## h", "## lambda:3">>

RECURSIVE BlocksOf(_)
RECURSIVE BlocksOfEach(_)
\* The code objects a constant holds, and those their LOAD_CONST operands hold.
BlocksOfEach(vs) ==
    IF vs = <<>> THEN <<>> ELSE BlocksOf(Head(vs)) \o BlocksOfEach(Tail(vs))
BlocksOf(value) ==
    CASE value.cat = "code" ->
            <<value>> \o BlocksOfEach(
                [i \in 1..Len(value.v.instrs) |->
                    IF value.v.instrs[i].opname = "LOAD_CONST"
                    THEN value.v.instrs[i].argval ELSE NoneV])
      [] value.cat = "tuple" -> BlocksOfEach(value.v)
      [] OTHER -> <<>>

\* C2: the driver stops only with the queue empty and with every block
\* reachable from the top-level block rendered under a section.
C2_DrainCompletes ==
    pc \notin {"start", "while", "for"} =>
        /\ pc = "done"
        /\ codes = <<>>
        /\ \A i \in 1..Len(BlocksOf(top)) :
               \E j \in 1..Len(rendered) : rendered[j][2] = BlocksOf(top)[i]

RECURSIVE Encounters(_)
RECURSIVE EncountersEach(_)
\* One pair per occurrence of a code object in a constant, in order.
EncountersEach(vs) ==
    IF vs = <<>> THEN <<>> ELSE Encounters(Head(vs)) \o EncountersEach(Tail(vs))
Encounters(value) ==
    CASE value.cat = "code" -> <<<<ExpectedLabel(value), value>>>>
      [] value.cat = "tuple" -> EncountersEach(value.v)
      [] OTHER -> <<>>

\* C3: the driver only removes the head of the queue; rendering an
\* instruction changes the queue only for LOAD_CONST, which appends one pair
\* per code object encountered, at the tail, whether or not it is queued already.
C3_QueueDiscipline ==
    [][/\ (pc = "while" /\ codes # <<>>) => codes' = Tail(codes)
       /\ (pc = "while" /\ codes = <<>>) => codes' = codes
       /\ (pc = "for" /\ ip > Len(code.v.instrs)) => codes' = codes
       /\ (pc = "for" /\ ip <= Len(code.v.instrs)) =>
              LET op == code.v.instrs[ip]
              IN  IF op.opname # "LOAD_CONST" THEN codes' = codes
                  ELSE IF pc' = "raised"
                       THEN /\ IsPrefix(codes, codes')
                            /\ IsPrefix(codes', codes \o Encounters(op.argval))
                       ELSE codes' = codes \o Encounters(op.argval)]_vars

\* f is loaded by two instructions and is queued twice.
C3_Witness ==
    /\ pc = "for"
    /\ code = top
    /\ ip = 3
    /\ codes = <<<<"f", CodeF>>, <<"f", CodeF>>>>

\* The word for n in 0..10.
Spelled(n) ==
    CASE n = 0 -> "zero" [] n = 1 -> "one" [] n = 2 -> "two" [] n = 3 -> "three"
      [] n = 4 -> "four" [] n = 5 -> "five" [] n = 6 -> "six" [] n = 7 -> "seven"
      [] n = 8 -> "eight" [] n = 9 -> "nine" [] n = 10 -> "ten"

\* C4: describe_number never raises; it spells 0..10, writes "minus " and
\* the word for -10..-1, and the decimal numeral for every other integer.
C4_NumberNaming ==
    ret.called =>
        /\ ~ret.raised
        /\ ret.text = (IF 0 <= arg /\ arg <= 10 THEN Spelled(arg)
                       ELSE IF -10 <= arg /\ arg <= -1 THEN "minus " \o Spelled(-arg)
                       ELSE ToString(arg))

\* The tree section of the document.
TreeSection(t) == t[9]

\* The fragment of a statement, with fallback as the text of a node that has
\* no rule.
FragmentWith(node, fallback) ==
    IF node.kind \notin descriptors THEN fallback
    ELSE IF node.kind = "Expr" /\ node.value.kind \notin descriptors
         THEN "A bare expression with value " \o fallback \o "."
         ELSE describe_node(node)

\* What an instruction without a rule adds to the document t.
NoRuleAdds(t, op, offset) ==
    IF op.is_jump_target
    THEN (IF op.starts_line THEN Append(t, "\n\n") ELSE t)
             \o <<"\n\n### Offset " \o ToString(offset) \o "\n\n" \o " ">>
    ELSE t

C6_ValueNeverRaises ==
    ret.called =>
        /\ ~ret.raised
        /\ arg.cat = "other" => ret.text = arg.v
        /\ arg.cat = "tuple" => \E l \in {as_list([i \in 1..Len(arg.v) |->
                                        describe_value(arg.v[i], <<>>).text])} :
                                    ret.text = "the tuple consisting of " \o l.text

\* C7: two different blocks never get the same label.
C7_UniqueLabels ==
    \A i, j \in 1..Len(Discovered) :
        Discovered[i][2] # Discovered[j][2] => Discovered[i][1] # Discovered[j][1]

\* The sentence of an instruction: its rule's text, empty without a rule.
Sentence(op, cds) ==
    IF op.opname \in descriptors THEN ApplyOpRule(op, cds).text ELSE ""

\* C8: an instruction that is a jump target adds the heading "### Offset n"
\* and then its sentence, also when the sentence is empty; one that is not a
\* jump target and has an empty sentence adds nothing; the paragraph break
\* of a new source line comes before the heading and the sentence.
C8_OffsetHeading ==
    [][(pc = "for" /\ pc' = "for" /\ ip' = ip + 1) =>
          LET op == code.v.instrs[ip]
              s == Sentence(op, codes)
              break == IF op.starts_line THEN <<"\n\n">> ELSE <<>>
              heading == "\n\n### Offset " \o ToString(2 * (ip - 1)) \o "\n\n"
          IN  /\ op.is_jump_target => txt' = txt \o break \o <<heading \o s \o " ">>
              /\ (~op.is_jump_target /\ s = "") => txt' = txt
              /\ (~op.is_jump_target /\ s # "") => txt' = txt \o break \o <<s \o " ">>]_vars

\* EXTENDED_ARG, whose rule is empty, as a jump target on a new line: the
\* break, then the heading.
C8_Witness ==
    /\ pc = "for"
    /\ code = top
    /\ ip = 2
    /\ top.v.instrs[1] = Instr("EXTENDED_ARG", IntV(1), TRUE, TRUE)
    /\ SubSeq(txt, 11, Len(txt)) = <<"## describe.py", "\n\n", "\n\n### Offset 0\n\n ">>

\* The image of a character: a markup character gets one backslash before
\* it, a newline becomes nl, any other character is itself.
EscapeImage(c, nl) ==
    IF c \in {"_", BT, "*", "#", "\\"} THEN "\\" \o c
    ELSE IF c = "\n" THEN nl
    ELSE c

RECURSIVE MapChars(_, _)
MapChars(s, nl) ==
    IF Len(s) = 0 THEN ""
    ELSE EscapeImage(SubSeq(s, 1, 1), nl) \o MapChars(SubSeq(s, 2, Len(s)), nl)

RECURSIVE OxfordUpTo(_, _)
OxfordUpTo(items, i) ==
    IF i = 1 THEN items[1]
    ELSE OxfordUpTo(items, i - 1)
             \o (IF i = Len(items) THEN ", and " ELSE ", ") \o items[i]

\* C10: as_list returns a single item unchanged, and n >= 2 items in order,
\* separated by ", " with ", and " before the last.
C10_OxfordList ==
    (ret.called /\ Len(arg) >= 1) =>
        /\ ~ret.raised
        /\ ret.text = OxfordUpTo(arg, Len(arg))
        /\ Len(arg) = 1 => ret.text = arg[1]
        /\ arg = <<"X", "Y">> => ret.text = "X, and Y"
        /\ arg = <<"X", "Y", "Z">> => ret.text = "X, Y, and Z"

C10_Witness ==
    /\ ret.called
    /\ arg = <<"X", "Y", "Z">>
    /\ ret.text = "X, Y, and Z"


\* The assignment sentence of the statement x = l + r, with the two numeric
\* literals written as the texts lt and rt.
SumSentence(lt, rt) ==
    "An assignment to the name " \o BT \o "x" \o BT
        \o ", of the value of the addition (or concatenation) operator"
        \o ", with left hand side a numeric constant with value " \o lt
        \o ", and right hand side a numeric constant with value " \o rt \o "."

IsSum(node) == node.kind = "Assign"

Preamble == "A module, containing the following code:\n\n"

\* The position in the module's text of the first character of the
\* description of statement i: after the preamble and, for each earlier
\* statement, its description and the two newlines that follow it.
RECURSIVE SlotStart(_, _)
SlotStart(body, i) ==
    IF i = 1 THEN Len(Preamble) + 1
    ELSE SlotStart(body, i - 1) + Len(describe_node(body[i - 1])) + 2

\* C12: the text of a module of k statements is the preamble followed by the
\* k statement descriptions in source order, each in a slot of its own, the
\* slots disjoint and each but the last followed by a blank line, with
\* nothing after the last.
C12_ModuleInOrder ==
    (ret.called /\ arg.kind = "Module") =>
        LET body == arg.body
            k == Len(body)
            d(i) == describe_node(body[i])
            t == ret.text
        IN  /\ IsPrefix(Preamble, t)
            /\ \A i \in 1..k :
                   SubSeq(t, SlotStart(body, i),
                          SlotStart(body, i) + Len(d(i)) - 1) = d(i)
            /\ \A i \in 1..(k - 1) :
                   /\ SubSeq(t, SlotStart(body, i) + Len(d(i)),
                             SlotStart(body, i) + Len(d(i)) + 1) = "\n\n"
                   /\ SlotStart(body, i + 1) = SlotStart(body, i) + Len(d(i)) + 2
            /\ Len(t) = IF k = 0 THEN Len(Preamble)
                        ELSE SlotStart(body, k) + Len(d(k)) - 1

C12_Witness ==
    /\ ret.called
    /\ arg = ModuleN(<<StmtPool[2], StmtPool[1], StmtPool[3]>>)
    /\ ret.text = Preamble \o "<_ast.Pass object>\n\n" \o SumSentence("1", "2")
                      \o "\n\nA bare expression with value <_ast.Lambda object>."


Contains(s, sub) ==
    \E i \in 1..(Len(s) - Len(sub) + 1) : SubSeq(s, i, i + Len(sub) - 1) = sub

JumpOps ==
    {"POP_JUMP_IF_FALSE", "POP_JUMP_IF_TRUE", "JUMP_IF_FALSE_OR_POP",
     "JUMP_ABSOLUTE", "JUMP_FORWARD", "FOR_ITER", "SETUP_LOOP"}

\* C13: the text added for a jump instruction names the offset of the
\* instruction it jumps to, as that instruction's heading numbers it, and
\* holds no unfilled {} placeholder.
C13_JumpOffsetFilled ==
    [][(pc = "for" /\ pc' = "for" /\ ip' = ip + 1
            /\ code.v.instrs[ip].opname \in JumpOps) =>
          LET op == code.v.instrs[ip]
              added == txt'[Len(txt')]
          IN  /\ Len(txt') > Len(txt)
              /\ ~Contains(added, "{}")
              /\ \E j \in 1..Len(code.v.instrs) :
                     /\ 2 * (j - 1) = op.argval.v
                     /\ Contains(added, "offset " \o ToString(2 * (j - 1)) \o ".")]_vars

====
